---------------------------- MODULE Spec2Model ----------------------------
(***************************************************************************)
(* A model of the AMEM associative memory (src/src/amem/core/memory.py),   *)
(* of the service that trains a mixture and seeds the memory from it       *)
(* (src/src/amem/services/amem_service.py), of the EM loop that fits the   *)
(* mixture (src/src/amem/core/em.py), and of threads that share a memory.  *)
(*                                                                         *)
(* Numbers.  The program computes in IEEE doubles.  The model computes in  *)
(* exact rationals, <<n, d>> with d > 0 in lowest terms, plus one NaN for  *)
(* the quotient 0/0 that scipy's cosine produces for a zero vector.        *)
(* Rounding is not modelled: two similarities that are equal as reals are  *)
(* equal in the model.                                                     *)
(***************************************************************************)
EXTENDS Integers, Sequences, FiniteSets, TLC

VARIABLES
    capacity,          \* MemoryStore._capacity
    keys,              \* MemoryStore._keys
    values,            \* MemoryStore._values
    hist,              \* history: the keys of the successful store calls since the store was last empty by construction or clear
    is_trained,        \* AmemService._is_trained
    model_parameters,  \* AmemService._model_parameters
    last,              \* the last call: its name, arguments, error kind and result
    em,                \* a call of ExpectationMaximizer.fit in progress: its arguments, locals and position
    threads,           \* the call each thread is executing on the shared MemoryStore: its position, arguments and locals
    paired             \* history: the (key, value) pairs that store and update have put in one slot

vars == <<capacity, keys, values, hist, is_trained, model_parameters, last,
          em, threads, paired>>

-----------------------------------------------------------------------------
(* Bounds of the model. *)

\* capacities 1..MaxCapacity are explored
MaxCapacity == 2

\* the threads that share one MemoryStore
NThreads == 2

Threads == 1..NThreads
\* at most MaxStores successful store calls are recorded between two clears
MaxStores == 3

\* MemoryStore._embedding_dim, a constructor argument
embedding_dim == 2

-----------------------------------------------------------------------------
(* Exact rationals. *)

Abs(x) == IF x < 0 THEN -x ELSE x

Min(a, b) == IF a < b THEN a ELSE b

Max(a, b) == IF a < b THEN b ELSE a

RECURSIVE GCD(_, _)
GCD(a, b) == IF b = 0 THEN a ELSE GCD(b, a % b)

\* n/d in lowest terms with a positive denominator (d # 0)
Rat(n, d) ==
    LET g == GCD(Abs(n), Abs(d))
        s == IF d < 0 THEN -1 ELSE 1
    IN  <<(s * n) \div g, (s * d) \div g>>

R(n) == <<n, 1>>

RatAdd(a, b) == Rat(a[1] * b[2] + b[1] * a[2], a[2] * b[2])

RatMul(a, b) == Rat(a[1] * b[1], a[2] * b[2])

RatLT(a, b) == a[1] * b[2] < b[1] * a[2]

\* a / b for b # 0
RatDiv(a, b) == Rat(a[1] * b[2], a[2] * b[1])

Vec2(a, b) == <<R(a), R(b)>>

Vec1(a) == <<R(a)>>

Vec3(a, b, c) == <<R(a), R(b), R(c)>>

ZeroVec(n) == [i \in 1..n |-> R(0)]

RECURSIVE DenProduct(_, _)
DenProduct(v, n) == IF n = 0 THEN 1 ELSE DenProduct(v, n - 1) * v[n][2]

\* v scaled by the product of its denominators: an integer vector of the
\* same direction
Scaled(v) ==
    LET D == DenProduct(v, Len(v))
    IN  [i \in 1..Len(v) |-> v[i][1] * (D \div v[i][2])]

RECURSIVE DotUpTo(_, _, _)
DotUpTo(u, v, n) ==
    IF n = 0 THEN 0 ELSE DotUpTo(u, v, n - 1) + u[n] * v[n]

\* np.dot of two integer vectors of equal length
Dot(u, v) == DotUpTo(u, v, Len(u))

\* mean * weight: every component scaled
ScalarMul(v, w) == [i \in 1..Len(v) |-> RatMul(v[i], w)]

-----------------------------------------------------------------------------
(* Similarities.                                                           *)
(* A similarity c in [-1, 1] is held as the rational sign(c) * c^2, which  *)
(* orders as c does and is 1 exactly when c is 1; nan marks 0/0.           *)

NaN == [nan |-> TRUE, sq |-> R(0)]

Sim(q) == [nan |-> FALSE, sq |-> q]

One == Sim(R(1))

\* 1.0 - scipy.spatial.distance.cosine(u, v) for u, v of equal length:
\*   dist = 1.0 - uv / sqrt(uu * vv), clipped to [0, 2]; 0/0 is nan and
\*   clipping leaves nan.  The cosine does not change when a vector is
\*   scaled by a positive number, so it is computed on integer vectors.
CosineSimilarity(u, v) ==
    LET a == Scaled(u)
        b == Scaled(v)
        uv == Dot(a, b)
        den == Dot(a, a) * Dot(b, b)
    IN  IF den = 0 THEN NaN
        ELSE Sim(Rat((IF uv < 0 THEN -1 ELSE 1) * uv * uv, den))

\* a < b on doubles: false whenever either side is nan
SimLT(a, b) == ~a.nan /\ ~b.nan /\ RatLT(a.sq, b.sq)


-----------------------------------------------------------------------------
(* list.sort(key=lambda x: x[2], reverse=True) of CPython for a list       *)
(* shorter than 64: the list is reversed, the leading run is found and     *)
(* made ascending, the rest is placed by binary insertion, and the list is *)
(* reversed again.  Only < on the keys is used, so a nan key misplaces     *)
(* entries.                                                                *)

Reverse(s) == [i \in 1..Len(s) |-> s[Len(s) + 1 - i]]

\* count_run: the length of the run that starts the list and has reached i
RECURSIVE RunEnd(_, _, _)
RunEnd(s, i, descending) ==
    IF i >= Len(s) THEN Len(s)
    ELSE IF SimLT(s[i + 1].similarity, s[i].similarity) = descending
         THEN RunEnd(s, i + 1, descending)
         ELSE i

\* binarysort's search: where pivot goes among s[l..r-1]
RECURSIVE BinarySearch(_, _, _, _)
BinarySearch(s, pivot, l, r) ==
    IF l >= r THEN l
    ELSE LET p == l + ((r - l) \div 2)
         IN  IF SimLT(pivot.similarity, s[p].similarity)
             THEN BinarySearch(s, pivot, l, p)
             ELSE BinarySearch(s, pivot, p + 1, r)

\* binarysort: s[1..start-1] is sorted; insert s[start..] one by one
RECURSIVE BinarySort(_, _)
BinarySort(s, start) ==
    IF start > Len(s) THEN s
    ELSE LET pivot == s[start]
             l == BinarySearch(s, pivot, 1, start)
             t == SubSeq(s, 1, l - 1) \o <<pivot>> \o SubSeq(s, l, start - 1)
                    \o SubSeq(s, start + 1, Len(s))
         IN  BinarySort(t, start + 1)

ListSort(s) ==
    IF Len(s) < 2 THEN s
    ELSE LET descending == SimLT(s[2].similarity, s[1].similarity)
             n == RunEnd(s, 2, descending)
             run == IF descending
                    THEN Reverse(SubSeq(s, 1, n)) \o SubSeq(s, n + 1, Len(s))
                    ELSE s
         IN  BinarySort(run, n + 1)

SortBySimilarityReverse(s) == Reverse(ListSort(Reverse(s)))

\* s[:k]
Slice(s, k) ==
    IF k >= 0 THEN SubSeq(s, 1, Min(k, Len(s)))
    ELSE SubSeq(s, 1, Max(0, Len(s) + k))

\* np.argmax: the first nan if there is one, else the first maximum
ArgMax(s) ==
    IF \E i \in 1..Len(s) : s[i].nan
    THEN CHOOSE i \in 1..Len(s) :
            s[i].nan /\ \A j \in 1..(i - 1) : ~s[j].nan
    ELSE CHOOSE i \in 1..Len(s) :
            /\ \A j \in 1..Len(s) : ~SimLT(s[i], s[j])
            /\ \A j \in 1..(i - 1) : SimLT(s[j], s[i])

-----------------------------------------------------------------------------
(* MemoryStore.  An operation takes the store m = [keys, values, hist] and *)
(* yields the store after it with the error kind it raised ("none" when it *)
(* returned).                                                              *)

Mem == [keys |-> keys, values |-> values, hist |-> hist]

Returned(ks, vs, h) == [keys |-> ks, values |-> vs, hist |-> h, err |-> "none"]

Raised(m, kind) == [keys |-> m.keys, values |-> m.values, hist |-> m.hist, err |-> kind]

\* a mutant of store: nothing is evicted
store_no_eviction(m, cap, key, value) ==
    IF Len(key) # embedding_dim THEN Raised(m, "DimensionMismatch")
    ELSE IF Len(value) # embedding_dim THEN Raised(m, "DimensionMismatch")
    ELSE Returned(Append(m.keys, key), Append(m.values, value), Append(m.hist, key))

\* a mutant of store: the newest entry but one is evicted instead of the oldest
store_evicts_recent(m, cap, key, value) ==
    IF Len(key) # embedding_dim THEN Raised(m, "DimensionMismatch")
    ELSE IF Len(value) # embedding_dim THEN Raised(m, "DimensionMismatch")
    ELSE IF Len(m.keys) + 1 > cap
         THEN Returned(Append(SubSeq(m.keys, 1, Len(m.keys) - 1), key),
                       Append(SubSeq(m.values, 1, Len(m.values) - 1), value),
                       Append(m.hist, key))
         ELSE Returned(Append(m.keys, key), Append(m.values, value),
                       Append(m.hist, key))

\* a mutant of store: the value's length is not checked
store_value_unchecked(m, cap, key, value) ==
    IF Len(key) # embedding_dim THEN Raised(m, "DimensionMismatch")
    ELSE LET ks == Append(m.keys, key)
             vs == Append(m.values, value)
         IN  IF Len(ks) > cap
             THEN Returned(Tail(ks), Tail(vs), Append(m.hist, key))
             ELSE Returned(ks, vs, Append(m.hist, key))

\* MemoryStore.store
store(m, cap, key, value) ==
    IF Len(key) # embedding_dim THEN Raised(m, "DimensionMismatch")
    ELSE IF Len(value) # embedding_dim THEN Raised(m, "DimensionMismatch")
    ELSE LET ks == Append(m.keys, key)
             vs == Append(m.values, value)
         IN  IF Len(ks) > cap
             THEN Returned(Tail(ks), Tail(vs), Append(m.hist, key))
             ELSE Returned(ks, vs, Append(m.hist, key))

\* the (key, value, similarity) tuples retrieve builds, in insertion order
Similarities(m, query) ==
    [i \in 1..Len(m.keys) |->
        [key |-> m.keys[i], value |-> m.values[i],
         similarity |-> CosineSimilarity(query, m.keys[i])]]

\* MemoryStore.retrieve: [err, out]
retrieve(m, query, k) ==
    IF Len(query) # embedding_dim
    THEN [err |-> "DimensionMismatch", out |-> <<>>]
    ELSE IF m.keys = <<>>
    THEN [err |-> "none", out |-> <<>>]
    ELSE [err |-> "none",
          out |-> Slice(SortBySimilarityReverse(Similarities(m, query)), k)]

\* a mutant of update: no check for an empty store, so np.argmax raises on
\* the empty list
update_unchecked(m, key, value) ==
    IF m.keys = <<>> THEN Raised(m, "ValueError")
    ELSE IF \E i \in 1..Len(m.keys) : Len(m.keys[i]) # Len(key)
    THEN Raised(m, "ValueError")
    ELSE LET similarities ==
                 [i \in 1..Len(m.keys) |-> CosineSimilarity(key, m.keys[i])]
             best_idx == ArgMax(similarities)
         IN  Returned(m.keys, [m.values EXCEPT ![best_idx] = value], m.hist)

\* MemoryStore.update; a key whose length differs from a stored key's makes
\* np.dot inside cosine raise ValueError
update(m, key, value) ==
    IF m.keys = <<>> THEN Raised(m, "EmptyStore")
    ELSE IF \E i \in 1..Len(m.keys) : Len(m.keys[i]) # Len(key)
    THEN Raised(m, "ValueError")
    ELSE LET similarities ==
                 [i \in 1..Len(m.keys) |-> CosineSimilarity(key, m.keys[i])]
             best_idx == ArgMax(similarities)
         IN  Returned(m.keys, [m.values EXCEPT ![best_idx] = value], m.hist)

\* MemoryStore.clear
clear(m) == Returned(<<>>, <<>>, <<>>)

\* MemoryStore.size
size(m) == Len(m.keys)

-----------------------------------------------------------------------------
(* Inputs. *)

\* keys and queries: the zero vector, two parallel vectors, one orthogonal
\* to them, and one of the wrong length
KeyInputs == {Vec2(0, 0), Vec2(1, 0), Vec2(2, 0), Vec2(0, 1), Vec1(1)}

QueryInputs == KeyInputs \cup {Vec2(2, 1)}

\* values: two of the right length and one too short
ValueInputs == {Vec2(5, 5), Vec2(7, 7), Vec1(5)}

KInputs == {1, 2}

NoParameters == [present |-> FALSE, means |-> <<>>, weights |-> <<>>]

-----------------------------------------------------------------------------
(* The calls on a MemoryStore. *)

Init ==
    /\ capacity \in 1..MaxCapacity
    /\ keys = <<>>
    /\ values = <<>>
    /\ hist = <<>>
    /\ is_trained = FALSE
    /\ model_parameters = NoParameters
    /\ last = [op |-> "init", err |-> "none"]
    /\ em = [pc |-> "idle"]
    /\ threads = [t \in Threads |-> [pc |-> "idle"]]
    /\ paired = {}

\* the store after a call; rec says whether the history is kept
SetStore(r, rec) ==
    /\ keys' = r.keys
    /\ values' = r.values
    /\ hist' = IF rec THEN r.hist ELSE hist

CallStore(key, value, rec) ==
    /\ LET r == store(Mem, capacity, key, value)
       IN  /\ SetStore(r, rec)
           /\ last' = [op |-> "store", key |-> key, value |-> value, err |-> r.err]
    /\ UNCHANGED <<em, threads, paired, capacity, is_trained, model_parameters>>

\* a mutant of CallRetrieve: the store's own lists are sorted in place
CallRetrieveInPlace(query, k) ==
    /\ LET r == retrieve(Mem, query, k)
           sorted == SortBySimilarityReverse(Similarities(Mem, query))
       IN  /\ last' = [op |-> "retrieve", key |-> query, k |-> k, err |-> r.err,
                       out |-> r.out]
           /\ keys' = IF r.err = "none"
                      THEN [i \in 1..Len(keys) |-> sorted[i].key] ELSE keys
           /\ values' = IF r.err = "none"
                        THEN [i \in 1..Len(keys) |-> sorted[i].value] ELSE values
    /\ UNCHANGED <<em, threads, paired, capacity, hist, is_trained, model_parameters>>

CallRetrieve(query, k) ==
    /\ LET r == retrieve(Mem, query, k)
       IN  last' = [op |-> "retrieve", key |-> query, k |-> k, err |-> r.err,
                    out |-> r.out]
    /\ UNCHANGED <<em, threads, paired, capacity, keys, values, hist, is_trained, model_parameters>>

CallUpdate(key, value, rec) ==
    /\ LET r == update(Mem, key, value)
       IN  /\ SetStore(r, rec)
           /\ last' = [op |-> "update", key |-> key, value |-> value, err |-> r.err]
    /\ UNCHANGED <<em, threads, paired, capacity, is_trained, model_parameters>>

CallClear(rec) ==
    /\ SetStore(clear(Mem), rec)
    /\ last' = [op |-> "clear", err |-> "none"]
    /\ UNCHANGED <<em, threads, paired, capacity, is_trained, model_parameters>>

CallSize ==
    /\ last' = [op |-> "size", err |-> "none", n |-> size(Mem)]
    /\ UNCHANGED <<em, threads, paired, capacity, keys, values, hist, is_trained, model_parameters>>

DoStore == \E key \in KeyInputs, value \in ValueInputs : CallStore(key, value, FALSE)

DoRetrieve == \E query \in QueryInputs, k \in KInputs : CallRetrieve(query, k)

DoUpdate == \E key \in KeyInputs, value \in ValueInputs : CallUpdate(key, value, FALSE)

DoClear == CallClear(FALSE)

DoSize == CallSize

NextStore == DoStore \/ DoRetrieve \/ DoUpdate \/ DoClear \/ DoSize

\* a MemoryStore under any sequence of calls
SpecStore == Init /\ [][NextStore]_vars

-----------------------------------------------------------------------------
(* The same calls with the history of store calls kept, on fewer inputs.   *)

HistStore ==
    /\ Len(hist) < MaxStores
    /\ \E key \in KeyInputs, value \in {Vec2(5, 5), Vec1(5)} :
          CallStore(key, value, TRUE)

HistRetrieve == \E query \in {Vec2(0, 0), Vec2(1, 0)} : CallRetrieve(query, 1)

HistUpdate == \E key \in {Vec2(0, 0), Vec2(2, 0)} : CallUpdate(key, Vec2(7, 7), TRUE)

HistClear == CallClear(TRUE)

NextHistory == HistStore \/ HistRetrieve \/ HistUpdate \/ HistClear

SpecHistory == Init /\ [][NextHistory]_vars


-----------------------------------------------------------------------------
(* ExpectationMaximizer.fit as the service sees it.  The fitted numbers    *)
(* depend on the unseeded random initial means, so the result is any       *)
(* member of a bounded set: n_components means of n_features numbers each, *)
(* among them the zero mean of a component that received no mass, and      *)
(* n_components weights.                                                   *)

\* data.size: rows times columns
DataSize(data) == IF Len(data) = 0 THEN 0 ELSE Len(data) * Len(data[1])

UnitVec(n) == [i \in 1..n |-> IF i = 1 THEN R(1) ELSE R(0)]

HalfVec(n) == [i \in 1..n |-> Rat(1, 2)]

FitMeans(n_features) == {ZeroVec(n_features), UnitVec(n_features), HalfVec(n_features)}

FitWeights(n_components) ==
    { [k \in 1..n_components |-> Rat(1, n_components)],
      [k \in 1..n_components |-> IF k = 1 THEN R(1) ELSE R(0)] }

\* the error fit raises, "none" when it returns
fit_error(data, n_components) ==
    IF DataSize(data) = 0 THEN "InvalidInput"
    ELSE IF n_components <= 0 THEN "InvalidInput"
    ELSE "none"

\* the parameters fit may return for valid arguments
fit(data, n_components) ==
    { [present |-> TRUE, means |-> means, weights |-> weights] :
        means \in [1..n_components -> FitMeans(Len(data[1]))],
        weights \in FitWeights(n_components) }

-----------------------------------------------------------------------------
(* AmemService.  An operation takes the store m, the flag and the          *)
(* parameters and yields what they are after it, with the error kind.      *)

Outcome(r, trained, params, kind) ==
    [keys |-> r.keys, values |-> r.values, hist |-> r.hist,
     is_trained |-> trained, model_parameters |-> params, err |-> kind]

\* the loop of train: store(mean, mean * weight) for components i, i+1, ...;
\* an error from store ends it
RECURSIVE StoreComponents(_, _, _, _, _)
StoreComponents(m, cap, means, weights, i) ==
    IF i > Min(Len(means), Len(weights)) THEN Raised(m, "none")
    ELSE LET weighted_value == ScalarMul(means[i], weights[i])
             r == store(m, cap, means[i], weighted_value)
         IN  IF r.err # "none" THEN r
             ELSE StoreComponents(r, cap, means, weights, i + 1)

\* the loop of a mutant of train: a component of weight zero is not stored
RECURSIVE StoreWeightedComponents(_, _, _, _, _)
StoreWeightedComponents(m, cap, means, weights, i) ==
    IF i > Min(Len(means), Len(weights)) THEN Raised(m, "none")
    ELSE IF weights[i] = R(0)
    THEN StoreWeightedComponents(m, cap, means, weights, i + 1)
    ELSE LET r == store(m, cap, means[i], ScalarMul(means[i], weights[i]))
         IN  IF r.err # "none" THEN r
             ELSE StoreWeightedComponents(r, cap, means, weights, i + 1)

\* a mutant of train: components of weight zero are skipped
train_skips_zero_weight(m, cap, trained, params, data, n_components, fitted) ==
    IF DataSize(data) = 0 THEN Outcome(m, trained, params, "InvalidInput")
    ELSE IF n_components <= 0 THEN Outcome(m, trained, params, "InvalidInput")
    ELSE LET r == StoreWeightedComponents(clear(m), cap, fitted.means,
                                          fitted.weights, 1)
         IN  IF r.err # "none" THEN Outcome(r, trained, fitted, r.err)
             ELSE Outcome(r, TRUE, fitted, "none")

\* a mutant of train: the memory is not cleared before it is seeded
train_without_clear(m, cap, trained, params, data, n_components, fitted) ==
    IF DataSize(data) = 0 THEN Outcome(m, trained, params, "InvalidInput")
    ELSE IF n_components <= 0 THEN Outcome(m, trained, params, "InvalidInput")
    ELSE LET r == StoreComponents(m, cap, fitted.means, fitted.weights, 1)
         IN  IF r.err # "none" THEN Outcome(r, trained, fitted, r.err)
             ELSE Outcome(r, TRUE, fitted, "none")

\* a mutant of train: the memory is cleared before n_components is checked
train_clears_first(m, cap, trained, params, data, n_components, fitted) ==
    IF DataSize(data) = 0 THEN Outcome(m, trained, params, "InvalidInput")
    ELSE IF n_components <= 0
    THEN Outcome(clear(m), trained, params, "InvalidInput")
    ELSE LET r == StoreComponents(clear(m), cap, fitted.means, fitted.weights, 1)
         IN  IF r.err # "none" THEN Outcome(r, trained, fitted, r.err)
             ELSE Outcome(r, TRUE, fitted, "none")

\* AmemService.train; fitted is what fit returned
train(m, cap, trained, params, data, n_components, fitted) ==
    IF DataSize(data) = 0 THEN Outcome(m, trained, params, "InvalidInput")
    ELSE IF n_components <= 0 THEN Outcome(m, trained, params, "InvalidInput")
    ELSE LET r == StoreComponents(clear(m), cap, fitted.means, fitted.weights, 1)
         IN  IF r.err # "none" THEN Outcome(r, trained, fitted, r.err)
             ELSE Outcome(r, TRUE, fitted, "none")

\* numpy broadcasting of query - mean: equal lengths, or one of length 1
Broadcastable(u, v) == Len(u) = Len(v) \/ Len(u) = 1 \/ Len(v) = 1

At(v, i) == IF Len(v) = 1 THEN v[1] ELSE v[i]

RECURSIVE SqDistUpTo(_, _, _)
SqDistUpTo(u, v, n) ==
    IF n = 0 THEN R(0)
    ELSE LET d == RatAdd(At(u, n), RatMul(R(-1), At(v, n)))
         IN  RatAdd(SqDistUpTo(u, v, n - 1), RatMul(d, d))

\* np.linalg.norm(query - mean), squared
SqDist(u, v) == SqDistUpTo(u, v, Max(Len(u), Len(v)))

\* np.argmin: the first minimum
ArgMin(s) ==
    CHOOSE i \in 1..Len(s) :
        /\ \A j \in 1..Len(s) : ~RatLT(s[j], s[i])
        /\ \A j \in 1..(i - 1) : RatLT(s[i], s[j])

\* a mutant of predict: only the parameters are checked, not the flag
predict_flag_unchecked(m, trained, params, query) ==
    IF ~params.present THEN [err |-> "NotTrained"]
    ELSE LET similar_entries == retrieve(m, query, 3)
         IN  IF similar_entries.err # "none" THEN [err |-> similar_entries.err]
             ELSE IF similar_entries.out = <<>>
             THEN IF \E i \in 1..Len(params.means) : ~Broadcastable(query, params.means[i])
                  THEN [err |-> "ValueError"]
                  ELSE LET distances == [i \in 1..Len(params.means) |->
                                            SqDist(query, params.means[i])]
                       IN  [err |-> "none", out |-> params.means[ArgMin(distances)]]
             ELSE [err |-> "AttributeError"]

\* AmemService.predict: [err, out].  retrieve returns plain tuples, so
\* reading entry.similarity in the loop over a non-empty result raises
\* AttributeError before anything is summed.
predict(m, trained, params, query) ==
    IF ~trained THEN [err |-> "NotTrained"]
    ELSE IF ~params.present THEN [err |-> "NotTrained"]
    ELSE LET similar_entries == retrieve(m, query, 3)
         IN  IF similar_entries.err # "none" THEN [err |-> similar_entries.err]
             ELSE IF similar_entries.out = <<>>
             THEN IF \E i \in 1..Len(params.means) : ~Broadcastable(query, params.means[i])
                  THEN [err |-> "ValueError"]
                  ELSE LET distances == [i \in 1..Len(params.means) |->
                                            SqDist(query, params.means[i])]
                       IN  [err |-> "none", out |-> params.means[ArgMin(distances)]]
             ELSE [err |-> "AttributeError"]

\* the loop of update_memory: store(point, point) for rows i, i+1, ...
RECURSIVE StorePoints(_, _, _, _)
StorePoints(m, cap, new_data, i) ==
    IF i > Len(new_data) THEN Raised(m, "none")
    ELSE LET r == store(m, cap, new_data[i], new_data[i])
         IN  IF r.err # "none" THEN r
             ELSE StorePoints(r, cap, new_data, i + 1)

\* a mutant of update_memory: the rows are stored last to first
update_memory_reversed(m, cap, trained, new_data) ==
    IF ~trained THEN Raised(m, "NotTrained")
    ELSE StorePoints(m, cap, Reverse(new_data), 1)

\* AmemService.update_memory
update_memory(m, cap, trained, new_data) ==
    IF ~trained THEN Raised(m, "NotTrained")
    ELSE StorePoints(m, cap, new_data, 1)

\* AmemService.get_memory_state
get_memory_state(m, trained) ==
    [size |-> size(m), capacity |-> 1000, embedding_dim |-> 128,
     is_trained |-> trained]

-----------------------------------------------------------------------------
(* The calls on an AmemService, and on the MemoryStore it shares with its  *)
(* other users.                                                            *)

\* no samples; two samples of embedding_dim features; two of one feature;
\* two of three features
DataInputs ==
    { <<>>,
      <<Vec2(1, 0), Vec2(0, 1)>>,
      <<Vec1(1), Vec1(2)>>,
      <<Vec3(1, 0, 0), Vec3(0, 1, 0)>> }

NComponentsInputs == {0, 1, 2}

PredictInputs == {Vec2(0, 0), Vec2(1, 0), Vec2(0, 1), Vec1(1)}

NewDataInputs == { <<>>, <<Vec2(2, 0), Vec2(0, 1)>>, <<Vec2(0, 1), Vec1(1)>> }

SetService(r) ==
    /\ keys' = r.keys
    /\ values' = r.values
    /\ hist' = hist
    /\ is_trained' = r.is_trained
    /\ model_parameters' = r.model_parameters

CallTrain(data, n_components, fitted) ==
    /\ LET r == train(Mem, capacity, is_trained, model_parameters, data,
                      n_components, fitted)
       IN  /\ SetService(r)
           /\ last' = [op |-> "train", data |-> data,
                       n_components |-> n_components, err |-> r.err]
    /\ UNCHANGED <<em, threads, paired, capacity>>

DoTrain ==
    \E data \in DataInputs, n_components \in NComponentsInputs :
        IF fit_error(data, n_components) # "none"
        THEN CallTrain(data, n_components, NoParameters)
        ELSE \E fitted \in fit(data, n_components) :
                CallTrain(data, n_components, fitted)

DoPredict ==
    \E query \in PredictInputs :
        /\ last' = [op |-> "predict", key |-> query]
                      @@ predict(Mem, is_trained, model_parameters, query)
        /\ UNCHANGED <<em, threads, paired, capacity, keys, values, hist, is_trained, model_parameters>>

DoUpdateMemory ==
    \E new_data \in NewDataInputs :
        /\ LET r == update_memory(Mem, capacity, is_trained, new_data)
           IN  /\ SetStore(r, FALSE)
               /\ last' = [op |-> "update_memory", data |-> new_data, err |-> r.err]
        /\ UNCHANGED <<em, threads, paired, capacity, is_trained, model_parameters>>

DoGetMemoryState ==
    /\ last' = [op |-> "get_memory_state", err |-> "none",
                out |-> get_memory_state(Mem, is_trained)]
    /\ UNCHANGED <<em, threads, paired, capacity, keys, values, hist, is_trained, model_parameters>>

\* another user of the shared store stores an entry
SharedStore == CallStore(Vec2(1, 0), Vec2(5, 5), FALSE)

\* another user of the shared store clears it
SharedClear == CallClear(FALSE)

\* another user of the shared store retrieves from it
SharedRetrieve == CallRetrieve(Vec2(1, 0), 1)

\* another user of the shared store reads its size
SharedSize == CallSize

NextService ==
    \/ DoTrain
    \/ DoPredict
    \/ DoUpdateMemory
    \/ DoGetMemoryState
    \/ SharedStore
    \/ SharedClear
    \/ SharedRetrieve
    \/ SharedSize

\* an AmemService and its store under any sequence of calls
SpecService == Init /\ [][NextService]_vars

-----------------------------------------------------------------------------
(* ExpectationMaximizer.fit step by step.                                  *)
(* The value rv.pdf returns is not computed: the densities of the samples  *)
(* under the current parameters are drawn from Densities each time the     *)
(* parameters change, 0 included, which is what exp returns on underflow   *)
(* for a sample far from a mean and what the LinAlgError branches put in   *)
(* place of a density.  The entries of a covariance matrix enter only the  *)
(* densities, so a matrix is held as the name of the branch that built it. *)
(* A log-likelihood is held as its exponential, the product of the sample  *)
(* likelihoods, and the tolerance as exp(tolerance):                       *)
(*   ll - prev < tolerance  iff  exp(ll) < exp(prev) * exp(tolerance).     *)

\* max_iterations 0..MaxIterations are explored
MaxIterations == 3

Densities == {R(0), R(1)}

\* exp(tolerance): tolerance 0 and tolerance ln 2
ExpToleranceInputs == {R(1), R(2)}

\* no samples; one sample; two samples, of one feature
EMDataInputs == { <<>>, <<Vec1(100)>>, <<Vec1(0), Vec1(100)>> }

EMComponentsInputs == {0, 1, 2}

\* the draws of np.random.randn for the initial means
InitialMeans(n_components, n_features) ==
    { [k \in 1..n_components |-> m] : m \in {ZeroVec(n_features), UnitVec(n_features)} }

\* the densities of n_samples samples under n_components components
DensityMatrices(n_samples, n_components) ==
    [1..n_samples -> [1..n_components -> Densities]]

\* s[1] + ... + s[n]
RECURSIVE SumUpTo(_, _)
SumUpTo(s, n) == IF n = 0 THEN R(0) ELSE RatAdd(SumUpTo(s, n - 1), s[n])

\* -np.inf
NegInf == [neg_inf |-> TRUE, exp |-> R(0)]

\* the sequence s with its elements computed once
Enumerated(s) == SubSeq(s, 1, Len(s))

\* what exp returns on overflow, and the nan of 0 * inf and inf / inf,
\* held beside the rationals
PosInf == <<1, 0>>

NotANumber == <<0, 0>>

\* w * d for a weight w >= 0 and a density d
TimesDensity(w, d) ==
    IF d = PosInf THEN (IF w = R(0) THEN NotANumber ELSE PosInf)
    ELSE RatMul(w, d)

\* the sum of a row of products
RowSum(row) ==
    IF \E k \in 1..Len(row) : row[k] = NotANumber THEN NotANumber
    ELSE IF \E k \in 1..Len(row) : row[k] = PosInf THEN PosInf
    ELSE SumUpTo(row, Len(row))

\* a / sum for a sum that is not zero
OverRowSum(a, sum) ==
    IF a = NotANumber \/ sum = NotANumber THEN NotANumber
    ELSE IF sum = PosInf THEN (IF a = PosInf THEN NotANumber ELSE R(0))
    ELSE RatDiv(a, sum)

\* the weighted densities before normalisation; multivariate_normal raises
\* LinAlgError for a singular covariance and the column stays zero
WeightedDensities(dens, covariances, weights) ==
    Enumerated([i \in 1..Len(dens) |->
        Enumerated([k \in 1..Len(weights) |->
            IF covariances[k] = "singular" THEN R(0)
            ELSE TimesDensity(weights[k], dens[i][k])])])

\* ExpectationMaximizer.expectation_step; dens[i][k] is rv.pdf(data[i]) for
\* component k
expectation_step(dens, covariances, weights) ==
    LET n_components == Len(weights)
        responsibilities == WeightedDensities(dens, covariances, weights)
        row_sums ==
            Enumerated([i \in 1..Len(dens) |->
                LET sum == RowSum(responsibilities[i])
                IN  IF sum = R(0) THEN R(1) ELSE sum])
    IN  Enumerated([i \in 1..Len(dens) |->
            Enumerated([k \in 1..n_components |->
                OverRowSum(responsibilities[i][k], row_sums[i])])])

\* ExpectationMaximizer.maximization_step
maximization_step(data, responsibilities) ==
    LET n_samples == Len(data)
        n_features == Len(data[1])
        n_components == Len(responsibilities[1])
        column(k) == [i \in 1..n_samples |-> responsibilities[i][k]]
        n_k == Enumerated([k \in 1..n_components |->
                              SumUpTo(column(k), n_samples)])
    IN  [weights |->
            Enumerated([k \in 1..n_components |->
                           RatDiv(n_k[k], R(n_samples))]),
         means |->
            Enumerated([k \in 1..n_components |->
                IF RatLT(R(0), n_k[k])
                THEN Enumerated([j \in 1..n_features |->
                         RatDiv(SumUpTo([i \in 1..n_samples |->
                                            RatMul(responsibilities[i][k], data[i][j])],
                                        n_samples),
                                n_k[k])])
                ELSE ZeroVec(n_features)]),
         covariances |->
            Enumerated([k \in 1..n_components |->
                IF RatLT(R(0), n_k[k]) THEN "regularized" ELSE "identity"])]

\* exp(ll) after the first n samples
RECURSIVE LikelihoodUpTo(_, _, _)
LikelihoodUpTo(dens, weights, n) ==
    IF n = 0 THEN R(1)
    ELSE LET sample_likelihood ==
                 SumUpTo([k \in 1..Len(weights) |-> RatMul(weights[k], dens[n][k])],
                         Len(weights))
             rest == LikelihoodUpTo(dens, weights, n - 1)
         IN  IF RatLT(R(0), sample_likelihood)
             THEN RatMul(rest, sample_likelihood)
             ELSE rest

\* ExpectationMaximizer.log_likelihood
log_likelihood(dens, weights) ==
    [neg_inf |-> FALSE, exp |-> LikelihoodUpTo(dens, weights, Len(dens))]

\* a mutant of improvement_below: the first comparison is against 0.0
improvement_below_zero_start(ll, prev, exp_tolerance) ==
    RatLT(ll.exp, RatMul(IF prev.neg_inf THEN R(1) ELSE prev.exp, exp_tolerance))

\* log_likelihood - prev_log_likelihood < self._tolerance
improvement_below(ll, prev, exp_tolerance) ==
    IF prev.neg_inf THEN FALSE
    ELSE RatLT(ll.exp, RatMul(prev.exp, exp_tolerance))

\* a mutant of in_range: one iteration more
in_range_inclusive(iteration, max_iterations) == iteration <= max_iterations

\* for iteration in range(self._max_iterations)
in_range(iteration, max_iterations) == iteration < max_iterations

UnchangedByFit ==
    UNCHANGED <<capacity, keys, values, hist, is_trained, model_parameters,
                last, threads, paired>>

\* fit is called: the checks and the initial parameters
FitCall ==
    /\ em.pc = "idle"
    /\ \E data \in EMDataInputs, n_components \in EMComponentsInputs,
          max_iterations \in 0..MaxIterations,
          exp_tolerance \in ExpToleranceInputs :
          IF fit_error(data, n_components) # "none"
          THEN em' = [pc |-> "raised", data |-> data,
                      n_components |-> n_components,
                      err |-> fit_error(data, n_components)]
          ELSE \E means \in InitialMeans(n_components, Len(data[1])),
                  dens \in DensityMatrices(Len(data), n_components) :
                  em' = [pc |-> "loop", data |-> data,
                         n_components |-> n_components,
                         max_iterations |-> max_iterations,
                         exp_tolerance |-> exp_tolerance,
                         means |-> means,
                         covariances |-> [k \in 1..n_components |-> "identity"],
                         weights |-> [k \in 1..n_components |-> Rat(1, n_components)],
                         dens |-> dens,
                         prev_log_likelihood |-> NegInf,
                         iteration |-> 0,
                         lls |-> <<>>,
                         converged |-> FALSE,
                         n_iterations |-> 0]
    /\ UnchangedByFit

\* the first half of an iteration: E-step and M-step
FitStep ==
    /\ em.pc = "loop"
    /\ in_range(em.iteration, em.max_iterations)
    /\ LET responsibilities == expectation_step(em.dens, em.covariances, em.weights)
           new_params == maximization_step(em.data, responsibilities)
       IN  em' = [em EXCEPT !.pc = "check",
                            !.means = new_params.means,
                            !.covariances = new_params.covariances,
                            !.weights = new_params.weights]
    /\ UnchangedByFit

\* the second half: the log-likelihood of the updated parameters and the
\* convergence test
FitCheck ==
    /\ em.pc = "check"
    /\ \E dens \in DensityMatrices(Len(em.data), em.n_components) :
          LET ll == log_likelihood(dens, em.weights)
              stop == improvement_below(ll, em.prev_log_likelihood,
                                        em.exp_tolerance)
          IN  em' = [em EXCEPT
                       !.pc = IF stop THEN "returned" ELSE "loop",
                       !.dens = dens,
                       !.prev_log_likelihood = ll,
                       !.iteration = em.iteration + 1,
                       !.lls = Append(em.lls, ll),
                       !.converged = stop,
                       !.n_iterations = IF stop THEN em.iteration + 1 ELSE 0]
    /\ UnchangedByFit

\* the loop is exhausted
FitExhausted ==
    /\ em.pc = "loop"
    /\ ~in_range(em.iteration, em.max_iterations)
    /\ em' = [em EXCEPT !.pc = "returned", !.converged = FALSE,
                        !.n_iterations = em.max_iterations]
    /\ UnchangedByFit

NextEM == FitCall \/ FitStep \/ FitCheck \/ FitExhausted

\* one call of fit
SpecEM == Init /\ [][NextEM]_vars

-----------------------------------------------------------------------------
(* expectation_step called on its own, with any parameters: covariances    *)
(* that may be singular, weights that are a distribution or have lost      *)
(* their mass, and densities that may have underflowed to 0 or overflowed  *)
(* to inf.                                                                 *)

EStepDensities == {R(0), R(1), R(3), PosInf}

EStepCovariances == {"identity", "regularized", "singular"}

\* the uniform weights, all the mass on the first component, no mass
EStepWeights(n_components) ==
    { [k \in 1..n_components |-> Rat(1, n_components)],
      [k \in 1..n_components |-> IF k = 1 THEN R(1) ELSE R(0)],
      [k \in 1..n_components |-> R(0)] }

\* the arguments of one call: 1 or 2 samples, 1 or 2 components
EStepInputs ==
    UNION { { [pc |-> "estep", dens |-> dens, covariances |-> covariances,
               weights |-> weights] :
                dens \in [1..n_samples -> [1..n_components -> EStepDensities]],
                covariances \in [1..n_components -> EStepCovariances],
                weights \in EStepWeights(n_components) } :
            n_samples \in 1..2, n_components \in 1..2 }

InitEStep ==
    /\ capacity = 1
    /\ keys = <<>>
    /\ values = <<>>
    /\ hist = <<>>
    /\ is_trained = FALSE
    /\ model_parameters = NoParameters
    /\ last = [op |-> "init", err |-> "none"]
    /\ em \in EStepInputs
    /\ threads = [t \in Threads |-> [pc |-> "idle"]]
    /\ paired = {}

\* expectation_step runs and returns the responsibility matrix
ExpectationStep ==
    /\ em.pc = "estep"
    /\ em' = [pc |-> "estep_returned", dens |-> em.dens,
              covariances |-> em.covariances, weights |-> em.weights,
              responsibilities |->
                  expectation_step(em.dens, em.covariances, em.weights)]
    /\ UnchangedByFit

NextEStep == ExpectationStep

\* one call of expectation_step
SpecEStep == InitEStep /\ [][NextEStep]_vars

-----------------------------------------------------------------------------
(* Threads that call one shared MemoryStore.  memory.py takes no lock, so  *)
(* the statements of the calls interleave; one step is one operation on    *)
(* one list, which the interpreter does not interrupt.  A thread's record  *)
(* holds its position, its arguments and its locals.                       *)

Idle == [pc |-> "idle"]

\* the entries the threads store, a value for each key
ThreadEntries == { <<Vec2(1, 0), Vec2(5, 5)>>, <<Vec2(0, 1), Vec2(7, 7)>> }

\* the key and the value of the threads' update calls
ThreadUpdates == { <<Vec2(1, 0), Vec2(9, 9)>> }

\* the query and k of the threads' retrieve calls
ThreadQueries == { <<Vec2(1, 0), 2>> }

UnchangedByThreads == UNCHANGED <<capacity, hist, is_trained, model_parameters, em>>

\* thread t goes to the record rec
Goto(t, rec) == threads' = [threads EXCEPT ![t] = rec]

\* thread t is at position pc
AtPc(t, pc) == threads[t].pc = pc

\* store is called with a key and a value of length embedding_dim
ThreadCallStore ==
    \E t \in Threads, entry \in ThreadEntries :
        /\ AtPc(t, "idle")
        /\ Goto(t, [pc |-> "store_append_key", key |-> entry[1], value |-> entry[2]])
        /\ paired' = paired \cup {entry}
        /\ UNCHANGED <<keys, values, last>>
        /\ UnchangedByThreads

\* self._keys.append(key.copy())
StoreAppendKey ==
    \E t \in Threads :
        /\ AtPc(t, "store_append_key")
        /\ keys' = Append(keys, threads[t].key)
        /\ Goto(t, [threads[t] EXCEPT !.pc = "store_append_value"])
        /\ UNCHANGED <<values, last, paired>>
        /\ UnchangedByThreads

\* self._values.append(value.copy())
StoreAppendValue ==
    \E t \in Threads :
        /\ AtPc(t, "store_append_value")
        /\ values' = Append(values, threads[t].value)
        /\ Goto(t, [threads[t] EXCEPT !.pc = "store_check"])
        /\ UNCHANGED <<keys, last, paired>>
        /\ UnchangedByThreads

\* if len(self._keys) > self._capacity
StoreCheck ==
    \E t \in Threads :
        /\ AtPc(t, "store_check")
        /\ IF Len(keys) > capacity
           THEN /\ Goto(t, [threads[t] EXCEPT !.pc = "store_pop_key"])
                /\ UNCHANGED last
           ELSE /\ Goto(t, Idle)
                /\ last' = [op |-> "store", err |-> "none"]
        /\ UNCHANGED <<keys, values, paired>>
        /\ UnchangedByThreads

\* self._keys.pop(0); IndexError on an empty list
StorePopKey ==
    \E t \in Threads :
        /\ AtPc(t, "store_pop_key")
        /\ IF keys = <<>>
           THEN /\ Goto(t, Idle)
                /\ last' = [op |-> "store", err |-> "IndexError"]
                /\ UNCHANGED keys
           ELSE /\ keys' = Tail(keys)
                /\ Goto(t, [threads[t] EXCEPT !.pc = "store_pop_value"])
                /\ UNCHANGED last
        /\ UNCHANGED <<values, paired>>
        /\ UnchangedByThreads

\* self._values.pop(0)
StorePopValue ==
    \E t \in Threads :
        /\ AtPc(t, "store_pop_value")
        /\ IF values = <<>>
           THEN /\ last' = [op |-> "store", err |-> "IndexError"]
                /\ UNCHANGED values
           ELSE /\ values' = Tail(values)
                /\ last' = [op |-> "store", err |-> "none"]
        /\ Goto(t, Idle)
        /\ UNCHANGED <<keys, paired>>
        /\ UnchangedByThreads

\* clear is called
ThreadCallClear ==
    \E t \in Threads :
        /\ AtPc(t, "idle")
        /\ Goto(t, [pc |-> "clear_keys"])
        /\ UNCHANGED <<keys, values, last, paired>>
        /\ UnchangedByThreads

\* self._keys.clear()
ClearKeys ==
    \E t \in Threads :
        /\ AtPc(t, "clear_keys")
        /\ keys' = <<>>
        /\ Goto(t, [pc |-> "clear_values"])
        /\ UNCHANGED <<values, last, paired>>
        /\ UnchangedByThreads

\* self._values.clear()
ClearValues ==
    \E t \in Threads :
        /\ AtPc(t, "clear_values")
        /\ values' = <<>>
        /\ Goto(t, Idle)
        /\ last' = [op |-> "clear", err |-> "none"]
        /\ UNCHANGED <<keys, paired>>
        /\ UnchangedByThreads

\* update is called
ThreadCallUpdate ==
    \E t \in Threads, u \in ThreadUpdates :
        /\ AtPc(t, "idle")
        /\ Goto(t, [pc |-> "update_select", key |-> u[1], value |-> u[2]])
        /\ UNCHANGED <<keys, values, last, paired>>
        /\ UnchangedByThreads

\* the check for an empty store, the similarities and np.argmax
UpdateSelect ==
    \E t \in Threads :
        /\ AtPc(t, "update_select")
        /\ IF keys = <<>>
           THEN /\ Goto(t, Idle)
                /\ last' = [op |-> "update", err |-> "EmptyStore"]
                /\ UNCHANGED paired
           ELSE LET similarities ==
                        [i \in 1..Len(keys) |->
                            CosineSimilarity(threads[t].key, keys[i])]
                    best_idx == ArgMax(similarities)
                IN  /\ Goto(t, [threads[t] EXCEPT !.pc = "update_assign"]
                                  @@ [best_idx |-> best_idx])
                    /\ paired' = paired \cup {<<keys[best_idx], threads[t].value>>}
                    /\ UNCHANGED last
        /\ UNCHANGED <<keys, values>>
        /\ UnchangedByThreads

\* self._values[best_idx] = value.copy(); IndexError past the end
UpdateAssign ==
    \E t \in Threads :
        /\ AtPc(t, "update_assign")
        /\ IF threads[t].best_idx > Len(values)
           THEN /\ last' = [op |-> "update", err |-> "IndexError"]
                /\ UNCHANGED values
           ELSE /\ values' = [values EXCEPT ![threads[t].best_idx] = threads[t].value]
                /\ last' = [op |-> "update", err |-> "none"]
        /\ Goto(t, Idle)
        /\ UNCHANGED <<keys, paired>>
        /\ UnchangedByThreads

\* retrieve is called with a query of length embedding_dim
ThreadCallRetrieve ==
    \E t \in Threads, q \in ThreadQueries :
        /\ AtPc(t, "idle")
        /\ Goto(t, [pc |-> "retrieve_check", key |-> q[1], k |-> q[2]])
        /\ UNCHANGED <<keys, values, last, paired>>
        /\ UnchangedByThreads

\* if not self._keys: return []
RetrieveCheck ==
    \E t \in Threads :
        /\ AtPc(t, "retrieve_check")
        /\ IF keys = <<>>
           THEN /\ Goto(t, Idle)
                /\ last' = [op |-> "retrieve", err |-> "none", out |-> <<>>]
           ELSE /\ Goto(t, [threads[t] EXCEPT !.pc = "retrieve_key"]
                              @@ [i |-> 1, similarities |-> <<>>])
                /\ UNCHANGED last
        /\ UNCHANGED <<keys, values, paired>>
        /\ UnchangedByThreads

\* the iterator over self._keys yields the next key, or the loop ends and
\* retrieve sorts and returns
RetrieveKey ==
    \E t \in Threads :
        /\ AtPc(t, "retrieve_key")
        /\ IF threads[t].i > Len(keys)
           THEN /\ Goto(t, Idle)
                /\ last' = [op |-> "retrieve", err |-> "none",
                            out |-> Slice(SortBySimilarityReverse(
                                              threads[t].similarities),
                                          threads[t].k)]
           ELSE /\ Goto(t, [threads[t] EXCEPT !.pc = "retrieve_value"]
                              @@ [stored_key |-> keys[threads[t].i]])
                /\ UNCHANGED last
        /\ UNCHANGED <<keys, values, paired>>
        /\ UnchangedByThreads

\* similarities.append((key, self._values[i], similarity)); IndexError past
\* the end of self._values
RetrieveValue ==
    \E t \in Threads :
        /\ AtPc(t, "retrieve_value")
        /\ LET me == threads[t]
           IN  IF me.i > Len(values)
               THEN /\ Goto(t, Idle)
                    /\ last' = [op |-> "retrieve", err |-> "IndexError", out |-> <<>>]
               ELSE /\ Goto(t, [pc |-> "retrieve_key", key |-> me.key, k |-> me.k,
                                i |-> me.i + 1,
                                similarities |->
                                    Append(me.similarities,
                                           [key |-> me.stored_key,
                                            value |-> values[me.i],
                                            similarity |->
                                                CosineSimilarity(me.key, me.stored_key)])])
                    /\ UNCHANGED last
        /\ UNCHANGED <<keys, values, paired>>
        /\ UnchangedByThreads

\* the size property: len(self._keys)
ThreadSize ==
    \E t \in Threads :
        /\ AtPc(t, "idle")
        /\ last' = [op |-> "size", err |-> "none", n |-> Len(keys)]
        /\ UNCHANGED <<keys, values, threads, paired>>
        /\ UnchangedByThreads

NextThreads ==
    \/ ThreadCallStore \/ StoreAppendKey \/ StoreAppendValue \/ StoreCheck
    \/ StorePopKey \/ StorePopValue
    \/ ThreadCallClear \/ ClearKeys \/ ClearValues
    \/ ThreadCallUpdate \/ UpdateSelect \/ UpdateAssign
    \/ ThreadCallRetrieve \/ RetrieveCheck \/ RetrieveKey \/ RetrieveValue
    \/ ThreadSize

\* the shared store has capacity 1
InitThreads == Init /\ capacity = 1

\* NThreads threads calling one MemoryStore with no lock
SpecThreads == InitThreads /\ [][NextThreads]_vars

-----------------------------------------------------------------------------
(* Properties of the MemoryStore. *)

\* a >= b on doubles
SimGE(a, b) == ~a.nan /\ ~b.nan /\ ~RatLT(a.sq, b.sq)

\* the last min(n, cap) elements of s, n = Len(s)
LastOf(s, cap) == SubSeq(s, Len(s) - Min(Len(s), cap) + 1, Len(s))

\* C1: after any sequence of store, update, clear and retrieve calls, failed
\* ones included, keys and values have the same length and that length is
\* at most capacity.
C1_SizeWithinCapacity ==
    /\ Len(keys) = Len(values)
    /\ Len(keys) <= capacity

\* a call failed on a store that is full and has evicted
C1_Witness ==
    /\ Len(hist) > capacity
    /\ Len(keys) = capacity
    /\ last.err # "none"

\* C2: after n successful store calls since the store was last empty, with
\* any retrieve and update calls in between, the store holds exactly the
\* keys of the last min(n, capacity) store calls, in insertion order.
C2_StrictFifo == keys = LastOf(hist, capacity)

\* an update came after more stores than the capacity
C2_Witness ==
    /\ Len(hist) > capacity
    /\ last.op = "update"
    /\ last.err = "none"

\* C3: retrieve(query, k) with k >= 1 on a store of size s returns exactly
\* min(k, s) entries of the store, in order of non-increasing similarity,
\* equal similarities in insertion order, and no entry left out is more
\* similar than the last one returned.
C3_RetrieveTopK ==
    (last.op = "retrieve" /\ last.err = "none") =>
        LET out == last.out
            s == Len(keys)
            n == Min(last.k, s)
            all == Similarities(Mem, last.key)
        IN  /\ Len(out) = n
            /\ \E p \in [1..n -> 1..s] :
                 /\ \A i, j \in 1..n : i < j => p[i] # p[j]
                 /\ \A i \in 1..n : out[i] = all[p[i]]
                 /\ \A i \in 1..(n - 1) :
                        SimGE(out[i].similarity, out[i + 1].similarity)
                 /\ \A i, j \in 1..n :
                        (i < j /\ out[i].similarity = out[j].similarity)
                            => p[i] < p[j]
                 /\ \A x \in 1..s :
                        (\A i \in 1..n : p[i] # x)
                            => SimGE(out[n].similarity, all[x].similarity)

\* C4: retrieve(K) for a key K that is stored returns the entry whose key is
\* K first, with similarity 1.0.
C4_StoredKeyFirst ==
    (/\ last.op = "retrieve"
     /\ last.err = "none"
     /\ \E i \in 1..Len(keys) : keys[i] = last.key)
        => /\ Len(last.out) >= 1
           /\ last.out[1].key = last.key
           /\ last.out[1].similarity = One

\* C5: after update(K, V2) on a store that holds the key K, retrieve(K) with
\* k = 1 returns an entry whose value is V2.
C5_UpdateThenRetrieve ==
    [][(/\ last.op = "update"
        /\ last.err = "none"
        /\ \E i \in 1..Len(keys) : keys[i] = last.key
        /\ last'.op = "retrieve"
        /\ last'.key = last.key
        /\ last'.k = 1)
           => /\ Len(last'.out) = 1
              /\ last'.out[1].value = last.value]_vars

\* C6: store fails with DimensionMismatch whenever the key or the value has
\* a length other than embedding_dim, retrieve whenever the query has, on an
\* empty store too; the failed call leaves keys and values as they were.
C6_DimensionMismatch ==
    [][/\ (/\ last'.op = "store"
           /\ (Len(last'.key) # embedding_dim \/ Len(last'.value) # embedding_dim))
              => /\ last'.err = "DimensionMismatch"
                 /\ keys' = keys
                 /\ values' = values
       /\ (last'.op = "retrieve" /\ Len(last'.key) # embedding_dim)
              => /\ last'.err = "DimensionMismatch"
                 /\ keys' = keys
                 /\ values' = values]_vars

\* a store call with a good key and a short value failed on a full store
C6_Witness ==
    /\ last.op = "store"
    /\ last.err = "DimensionMismatch"
    /\ Len(last.key) = embedding_dim
    /\ Len(last.value) # embedding_dim
    /\ Len(keys) = capacity

\* C7: on an empty store, retrieve with a query of length embedding_dim
\* returns the empty sequence without error, and update fails with
\* EmptyStore and leaves the store empty.
C7_EmptyStore ==
    [][/\ (keys = <<>> /\ last'.op = "retrieve" /\ Len(last'.key) = embedding_dim)
              => (last'.err = "none" /\ last'.out = <<>>)
       /\ (keys = <<>> /\ last'.op = "update")
              => /\ last'.err = "EmptyStore"
                 /\ keys' = <<>>
                 /\ values' = <<>>]_vars

\* update failed on an empty store
C7_Witness ==
    /\ last.op = "update"
    /\ last.err = "EmptyStore"
    /\ keys = <<>>
    /\ values = <<>>

-----------------------------------------------------------------------------
(* Properties of the AmemService. *)

\* mean[i] * weight[i] for every component
WeightedMeans(params) ==
    [i \in 1..Len(params.means) |-> ScalarMul(params.means[i], params.weights[i])]

\* C8: while no train call has succeeded, failed ones included, predict and
\* update_memory fail with NotTrained and leave the memory as it was; a
\* failed train leaves the flag as it was.
C8_NotTrained ==
    [][/\ (~is_trained /\ last'.op \in {"predict", "update_memory"})
              => /\ last'.err = "NotTrained"
                 /\ keys' = keys
                 /\ values' = values
       /\ (last'.op = "train" /\ last'.err # "none")
              => is_trained' = is_trained]_vars

\* predict failed with NotTrained after a train call that failed past fit,
\* on a memory that holds an entry
C8_Witness ==
    /\ last.op = "predict"
    /\ last.err = "NotTrained"
    /\ ~is_trained
    /\ model_parameters.present
    /\ keys # <<>>

\* C9 as claimed: after a successful train the memory holds exactly one
\* entry per fitted component i, key mean[i] and value mean[i] * weight[i],
\* in component order, and nothing stored before; is_trained is true.
C9_OneEntryPerComponent ==
    (last.op = "train" /\ last.err = "none") =>
        /\ keys = model_parameters.means
        /\ values = WeightedMeans(model_parameters)
        /\ is_trained

\* C9 as amended: after a successful train the memory holds exactly the
\* entries (mean[i], mean[i] * weight[i]) of the last min(n_components,
\* capacity) fitted components, in component order, and nothing stored
\* before; is_trained is true.
C9_LastComponentsSeeded ==
    (last.op = "train" /\ last.err = "none") =>
        /\ Len(model_parameters.means) = last.n_components
        /\ keys = LastOf(model_parameters.means, capacity)
        /\ values = LastOf(WeightedMeans(model_parameters), capacity)
        /\ is_trained

\* a train with more components than the capacity succeeded, and the
\* components differ
C9_Witness ==
    /\ last.op = "train"
    /\ last.err = "none"
    /\ Len(model_parameters.means) > capacity
    /\ model_parameters.means[1] # model_parameters.means[2]
    /\ is_trained

\* the similarities of the entries are -1, 0 or 1, which the model holds
\* as themselves
ExactSimilarities(entries) ==
    \A i \in 1..Len(entries) :
        /\ ~entries[i].similarity.nan
        /\ entries[i].similarity.sq \in {R(-1), R(0), R(1)}

\* component c of the sum of similarity_i * value_i over the first n entries
RECURSIVE WeightedSumUpTo(_, _, _)
WeightedSumUpTo(entries, c, n) ==
    IF n = 0 THEN R(0)
    ELSE RatAdd(WeightedSumUpTo(entries, c, n - 1),
                RatMul(entries[n].similarity.sq, entries[n].value[c]))

RECURSIVE TotalSimilarityUpTo(_, _)
TotalSimilarityUpTo(entries, n) ==
    IF n = 0 THEN R(0)
    ELSE RatAdd(TotalSimilarityUpTo(entries, n - 1), entries[n].similarity.sq)

\* the sum of similarity_i * value_i over the sum of similarity_i, and the
\* sum itself when the total similarity is 0
WeightedAverage(entries) ==
    LET total == TotalSimilarityUpTo(entries, Len(entries))
    IN  [c \in 1..embedding_dim |->
            IF total = R(0) THEN WeightedSumUpTo(entries, c, Len(entries))
            ELSE RatDiv(WeightedSumUpTo(entries, c, Len(entries)), total)]

\* C10: after a successful train, predict(query) for a query of length
\* embedding_dim on a non-empty memory returns without error the
\* similarity-weighted average of the values of the top 3 retrieved
\* entries, and their unnormalized sum when the total similarity is 0.
C10_PredictWeightedAverage ==
    (/\ last.op = "predict"
     /\ is_trained
     /\ Len(last.key) = embedding_dim
     /\ keys # <<>>)
        => /\ last.err = "none"
           /\ LET entries == retrieve(Mem, last.key, 3).out
              IN  ExactSimilarities(entries)
                      => last.out = WeightedAverage(entries)

\* the index of the first mean nearest to query
NearestMean(means, query) ==
    CHOOSE i \in 1..Len(means) :
        /\ \A j \in 1..Len(means) :
              ~RatLT(SqDist(query, means[j]), SqDist(query, means[i]))
        /\ \A j \in 1..(i - 1) :
              RatLT(SqDist(query, means[i]), SqDist(query, means[j]))

\* C11: after a successful train, predict(query) on an empty memory returns
\* the fitted component mean nearest to the query by Euclidean distance,
\* the first such mean on ties, and does not fail.
C11_FallbackNearestMean ==
    (/\ last.op = "predict"
     /\ is_trained
     /\ keys = <<>>
     /\ Len(last.key) = embedding_dim)
        => /\ last.err = "none"
           /\ last.out = model_parameters.means[
                             NearestMean(model_parameters.means, last.key)]

\* C12: get_memory_state returns the memory's entry count, the capacity and
\* the embedding dimension the memory was constructed with, and the
\* service's is_trained flag.
C12_MemoryStateReflectsStore ==
    (last.op = "get_memory_state") =>
        /\ last.out.size = Len(keys)
        /\ last.out.capacity = capacity
        /\ last.out.embedding_dim = embedding_dim
        /\ last.out.is_trained = is_trained

\* C13: after a successful train, update_memory(new_data) whose rows all
\* have length embedding_dim stores each row, in row order, as key and as
\* value: the memory then holds the last min(size + r, capacity) entries of
\* its old contents followed by the rows.
C13_UpdateMemoryAppendsRows ==
    [][(/\ is_trained
        /\ last'.op = "update_memory"
        /\ \A i \in 1..Len(last'.data) : Len(last'.data[i]) = embedding_dim)
           => /\ last'.err = "none"
              /\ keys' = LastOf(keys \o last'.data, capacity)
              /\ values' = LastOf(values \o last'.data, capacity)]_vars

\* two rows were stored and the memory is full
C13_Witness ==
    /\ last.op = "update_memory"
    /\ last.err = "none"
    /\ Len(last.data) = 2
    /\ Len(keys) = capacity
    /\ keys[Len(keys)] = last.data[2]

\* C17: fit and train fail with InvalidInput when data has no samples or
\* n_components <= 0; the failed train leaves is_trained, the model
\* parameters and the memory as they were.
C17_InvalidInput ==
    [][(/\ last'.op = "train"
        /\ (Len(last'.data) = 0 \/ last'.n_components <= 0))
           => /\ fit_error(last'.data, last'.n_components) = "InvalidInput"
              /\ last'.err = "InvalidInput"
              /\ is_trained' = is_trained
              /\ model_parameters' = model_parameters
              /\ keys' = keys
              /\ values' = values]_vars

\* a train with n_components = 0 failed on a trained service whose memory
\* holds entries
C17_Witness ==
    /\ last.op = "train"
    /\ last.err = "InvalidInput"
    /\ Len(last.data) > 0
    /\ last.n_components <= 0
    /\ is_trained
    /\ keys # <<>>

\* the similarity the specification defines: 0 when either vector is zero
DefinedSimilarity(u, v) ==
    IF Dot(Scaled(u), Scaled(u)) = 0 \/ Dot(Scaled(v), Scaled(v)) = 0
    THEN Sim(R(0))
    ELSE CosineSimilarity(u, v)

\* C19: when the query or a stored key is the zero vector, retrieve and
\* update use the similarity 0 for that pair: no NaN is returned by
\* retrieve, used as a sort key, or used to select update's slot.
C19_ZeroVectorSimilarity ==
    /\ (last.op = "retrieve" /\ last.err = "none") =>
          /\ \A i \in 1..Len(last.out) :
                last.out[i].similarity =
                    DefinedSimilarity(last.key, last.out[i].key)
          /\ \A i \in 1..Len(keys) :
                ~Similarities(Mem, last.key)[i].similarity.nan
    /\ (last.op = "update" /\ last.err = "none") =>
          \A i \in 1..Len(keys) : ~CosineSimilarity(last.key, keys[i]).nan

\* the lowest index among the slots of maximum similarity to key
BestSlot(ks, key) ==
    CHOOSE b \in 1..Len(ks) :
        /\ \A j \in 1..Len(ks) :
              SimGE(DefinedSimilarity(key, ks[b]), DefinedSimilarity(key, ks[j]))
        /\ \A j \in 1..(b - 1) :
              SimLT(DefinedSimilarity(key, ks[j]), DefinedSimilarity(key, ks[b]))

\* C20: update(key, value) on a non-empty store replaces the value of
\* exactly one slot, the lowest-index slot among those of maximum cosine
\* similarity to key; keys, the other values, the order and the size stay,
\* so the next eviction still removes the oldest entry.
C20_UpdateReplacesBestSlot ==
    [][(/\ last'.op = "update"
        /\ keys # <<>>
        /\ Len(last'.key) = embedding_dim)
           => /\ last'.err = "none"
              /\ keys' = keys
              /\ values' = [values EXCEPT ![BestSlot(keys, last'.key)] =
                                              last'.value]]_vars

-----------------------------------------------------------------------------
(* Properties of ExpectationMaximizer.fit. *)

\* C14: for non-empty data and n_components >= 1, fit returns exactly
\* n_components means, covariances and weights, and the weights are
\* non-negative and sum to 1, also when a sample's responsibility row is
\* all zero.
C14_WeightsSumToOne ==
    (em.pc = "returned") =>
        /\ Len(em.means) = em.n_components
        /\ Len(em.covariances) = em.n_components
        /\ Len(em.weights) = em.n_components
        /\ \A k \in 1..em.n_components : ~RatLT(em.weights[k], R(0))
        /\ SumUpTo(em.weights, em.n_components) = R(1)

\* the steps fit may still take: two for each iteration left, one to return
FitMeasure ==
    IF em.pc = "loop" THEN 2 * (em.max_iterations - em.iteration) + 1
    ELSE IF em.pc = "check" THEN 2 * (em.max_iterations - em.iteration)
    ELSE 0

\* C15: for arguments that pass the checks, fit returns after at most
\* max_iterations iterations of the loop, and the n_iterations it returns
\* is at most max_iterations: the count of iterations never exceeds
\* max_iterations and every step of the loop brings the return nearer.
C15_AtMostMaxIterations ==
    /\ [](em.pc \in {"loop", "check", "returned"} =>
            /\ em.iteration <= em.max_iterations
            /\ em.n_iterations <= em.max_iterations
            /\ FitMeasure >= 0)
    /\ [][em.pc \in {"loop", "check"} => FitMeasure' < FitMeasure]_vars

\* fit has run every iteration it was allowed and returned
C15_Witness ==
    /\ em.pc = "returned"
    /\ em.max_iterations = MaxIterations
    /\ em.iteration = em.max_iterations
    /\ em.n_iterations = em.max_iterations

\* ll(t) - ll(t - 1) < tolerance; false at t = 1, where ll(0) is -infinity
ImprovementBelowAt(t) ==
    /\ t >= 2
    /\ RatLT(em.lls[t].exp, RatMul(em.lls[t - 1].exp, em.exp_tolerance))

\* C16: fit returns converged = true with n_iterations = t exactly when t is
\* the first iteration, counted from 1, at which ll(t) - ll(t - 1) <
\* tolerance, and t is never 1; when no iteration up to max_iterations
\* passes the test, fit returns converged = false and n_iterations =
\* max_iterations.
C16_ConvergedAtFirstSmallImprovement ==
    (em.pc = "returned") =>
        IF em.converged
        THEN /\ em.n_iterations >= 2
             /\ Len(em.lls) = em.n_iterations
             /\ ImprovementBelowAt(em.n_iterations)
             /\ \A t \in 1..(em.n_iterations - 1) : ~ImprovementBelowAt(t)
        ELSE /\ em.n_iterations = em.max_iterations
             /\ Len(em.lls) = em.max_iterations
             /\ \A t \in 1..em.max_iterations : ~ImprovementBelowAt(t)

\* fit converged at the second iteration with a third one allowed
C16_Witness ==
    /\ em.pc = "returned"
    /\ em.converged
    /\ em.n_iterations = 2
    /\ em.max_iterations > 2

-----------------------------------------------------------------------------
(* Properties of the MemoryStore under concurrent calls. *)

\* C18: when threads call store, update, clear and retrieve on one shared
\* MemoryStore, each call is atomic with respect to the others: no retrieve
\* and no size read observes keys and values of different lengths (the
\* read past the end of the shorter list raises IndexError), more entries
\* than capacity, or a key with the value of another entry.
C18_AtomicOperations ==
    /\ (last.op = "size") => last.n <= capacity
    /\ (last.op = "retrieve") =>
          /\ last.err = "none"
          /\ Len(last.out) <= capacity
          /\ \A i \in 1..Len(last.out) :
                <<last.out[i].key, last.out[i].value>> \in paired

-----------------------------------------------------------------------------
(* Further properties of the MemoryStore and of the service. *)

\* C21: after any sequence of successful and failed store, update and
\* clear calls, every stored key and every stored value has length
\* embedding_dim; update never stores a value of another length.
C21_StoredLengths ==
    /\ \A i \in 1..Len(keys) : Len(keys[i]) = embedding_dim
    /\ \A i \in 1..Len(values) : Len(values[i]) = embedding_dim

\* C22: train is all-or-nothing: when a train call raises, for a
\* DimensionMismatch from the memory after fit has succeeded too, the model
\* parameters, is_trained and the memory are as they were before the call.
C22_TrainAllOrNothing ==
    [][(last'.op = "train" /\ last'.err # "none")
           => /\ model_parameters' = model_parameters
              /\ is_trained' = is_trained
              /\ keys' = keys
              /\ values' = values]_vars

\* C23: is_trained starts false, becomes true only at the end of a
\* successful train and never returns to false; and while it is true the
\* model parameters are those the memory was last seeded from, so they
\* change only in a successful train that seeds the memory from them.
C23_TrainedFlag ==
    /\ ~is_trained
    /\ [][/\ is_trained => is_trained'
          /\ (~is_trained /\ is_trained') =>
                (last'.op = "train" /\ last'.err = "none")
          /\ (is_trained' /\ model_parameters' # model_parameters) =>
                /\ last'.op = "train"
                /\ last'.err = "none"
                /\ keys' = LastOf(model_parameters'.means, capacity)]_vars

C25_ReadsChangeNothing ==
    [][(last'.op \in {"retrieve", "size", "predict", "get_memory_state"})
           => /\ keys' = keys
              /\ values' = values
              /\ model_parameters' = model_parameters
              /\ is_trained' = is_trained]_vars

\* a retrieve returned an entry of a trained service's memory of two
\* entries, the second of which is the more similar
C25_Witness ==
    /\ last.op = "retrieve"
    /\ last.err = "none"
    /\ is_trained
    /\ Len(keys) = 2
    /\ Len(last.out) = 1
    /\ last.out[1].key = keys[2]
    /\ keys[1] # keys[2]

-----------------------------------------------------------------------------
(* Properties of expectation_step. *)

\* C26: each row of the matrix expectation_step returns either sums to 1
\* or is entirely zero, and is entirely zero exactly when every component's
\* weighted density at that sample is zero; a component whose covariance is
\* singular has an all-zero column and does not fail the step.
C26_RowsSumToOneOrZero ==
    (em.pc = "estep_returned") =>
        \A i \in 1..Len(em.dens) :
            LET row == em.responsibilities[i]
                n_components == Len(em.weights)
                weighted == WeightedDensities(em.dens, em.covariances, em.weights)[i]
                zero(r) == \A k \in 1..n_components : r[k] = R(0)
            IN  /\ Len(row) = n_components
                /\ RowSum(row) = R(1) \/ zero(row)
                /\ zero(row) <=> zero(weighted)
                /\ \A k \in 1..n_components :
                      em.covariances[k] = "singular" => row[k] = R(0)

=============================================================================
